---- MODULE Spec2Model ----
(***************************************************************************)
(* State-machine model of XDP/xdp_collect.py: the userspace flow           *)
(* collector.  The engine (main and _sweep_flows) is single-threaded; the  *)
(* XDP classifier running in the kernel updates the "flows" table          *)
(* concurrently for as long as it is attached, and a KeyboardInterrupt can *)
(* arrive between any two steps of the engine.                             *)
(*                                                                         *)
(* Time.  The kernel stamps packets in monotonic nanoseconds and the       *)
(* engine reads wall-clock seconds as floats.  The model keeps every time  *)
(* as an integer count of clock ticks, NsPerSec ticks to the second (the   *)
(* code has 1e9 of them), so `ns/1e9 + offset` is compared after           *)
(* multiplying both sides by NsPerSec.                                     *)
(***************************************************************************)
EXTENDS Integers, Sequences, FiniteSets, TLC

\* ------------------------------------------------------------ bounds
NsPerSec      == 1   \* resolution of the model's clock (ticks per second)
MaxClock      == 3   \* the monotonic clock stops advancing at this tick
MaxPackets    == 2   \* packets the classifier records in one run
MaxInterrupts == 1   \* KeyboardInterrupts delivered in one run
MaxReportFlows == 3  \* entries of the cache the report specification starts from
TimeOffset    == 3   \* seconds between boot and the epoch (offset, line 65)

\* ------------------------------------------------------------ constants
CPU_COUNT == 2
ETH_IPV4  == 2048    \* 0x0800
ETH_8100  == 33024   \* 0x8100

CPUs == 0 .. (CPU_COUNT - 1)

RunTimes == {1, 2}   \* args.time
AggTimes == {1}      \* args.aggregate
PktLens  == {2}      \* bytes of one packet

\* FlowKey (attrs): the fields the report reads.  Addresses and ports are
\* in network byte order.
K_V4    == [l2_proto |-> ETH_IPV4, l4_proto |-> 6,
            src_ip |-> 16777343, dst_ip |-> 33554559,
            src_port |-> 20480, dst_port |-> 47873]
K_OTHER == [l2_proto |-> 34525, l4_proto |-> 17,
            src_ip |-> 16777343, dst_ip |-> 33554559,
            src_port |-> 13568, dst_port |-> 13568]
FlowKeys == {K_V4, K_OTHER}

\* Two more keys for the report: one that differs from K_OTHER in its
\* addresses only, and one with the ethertype of the second branch.
K_OTHER2 == [l2_proto |-> 34525, l4_proto |-> 17,
             src_ip |-> 50331775, dst_ip |-> 33554559,
             src_port |-> 13568, dst_port |-> 13568]
K_8100   == [l2_proto |-> ETH_8100, l4_proto |-> 6,
             src_ip |-> 16777343, dst_ip |-> 33554559,
             src_port |-> 20480, dst_port |-> 47873]
ReportKeys == {K_V4, K_OTHER, K_OTHER2, K_8100}

ZeroAccm  == [packets |-> 0, bytes |-> 0, start |-> 0, end |-> 0]
ZeroAccms == [c \in CPUs |-> ZeroAccm]

VARIABLES
    pc,            \* position of main
    clock,         \* monotonic clock, in ticks since boot
    flows,         \* LiveTable: bpf.get_table("flows")
    cache,         \* ColdCache: bpf.get_table("cache")
    attached,      \* the XDP program is attached to the interface
    run_time, agg_time, py_start, wake,
    draining,      \* the _sweep_flows call in progress is the one of line 129
    now, cur_flows, old_flows, idx,      \* locals of _sweep_flows / main
    all_flows, flow_set, pending, out,   \* report compilation
    observed,      \* FlowKeys the classifier has inserted into flows
    recorded,      \* FlowKey -> packets and bytes the classifier has counted
    npackets,      \* packets recorded so far
    sigints,       \* interrupts delivered so far
    detach_calls,  \* calls of bpf.remove_xdp
    drains,        \* calls of _sweep_flows(..., 0)
    rendered       \* FlowKey -> the row compiled for it

vars == <<pc, clock, flows, cache, attached, run_time, agg_time, py_start, wake,
          draining, now, cur_flows, old_flows, idx, all_flows, flow_set, pending,
          out, observed, recorded, npackets, sigints, detach_calls, drains, rendered>>

envVars    == <<clock, npackets, sigints, observed, recorded>>
sweepVars  == <<now, cur_flows, old_flows, idx>>
reportVars == <<all_flows, flow_set, pending, out, rendered>>
argVars    == <<run_time, agg_time, py_start>>

\* ------------------------------------------------------------ tables
EmptyTable == [k \in {} |-> ZeroAccms]

Put(t, k, v) == [x \in (DOMAIN t) \cup {k} |-> IF x = k THEN v ELSE t[x]]

Del(t, k) == [x \in (DOMAIN t) \ {k} |-> t[x]]

RECURSIVE Orders(_)
Orders(S) ==
    IF S = {} THEN {<<>>}
    ELSE UNION {{<<x>> \o s : s \in Orders(S \ {x})} : x \in S}

\* table.items(): the (key, value) pairs in the order the hash table
\* enumerates them, which the engine does not control.
Items(t) == {[i \in 1 .. Len(o) |-> <<o[i], t[o[i]]>>] : o \in Orders(DOMAIN t)}

\* The positions of the key and of the value in a pair of items() (lines
\* 29-30; sequences count from 1).
key == 1
val == 2

Range(s) == {s[i] : i \in 1 .. Len(s)}

Min(a, b) == IF a < b THEN a ELSE b
Max(a, b) == IF a > b THEN a ELSE b

\* ------------------------------------------------------------ clocks
\* time.time(), in ticks: the wall clock runs TimeOffset seconds ahead of
\* the monotonic clock.
WallClock == clock + TimeOffset * NsPerSec

\* ------------------------------------------------------------ _sweep_flows
\* lines 44-47: the most recent end stamp over all CPUs
RECURSIVE RecentStampFrom(_, _, _)
RecentStampFrom(accms, j, recent_stamp) ==
    IF j >= CPU_COUNT THEN recent_stamp
    ELSE RecentStampFrom(accms, j + 1,
            IF accms[j].end > recent_stamp THEN accms[j].end ELSE recent_stamp)

RecentStamp(accms) == RecentStampFrom(accms, 0, 0)

\* line 50: idle_time = now - (recent_stamp/1e9 + offset), in ticks
IdleTime(now_, recent_stamp) == now_ - (recent_stamp + TimeOffset * NsPerSec)

Exceeds_ge(idle_time, agg) == idle_time >= agg * NsPerSec

\* line 51: idle_time > agg_time, agg in seconds
Exceeds(idle_time, agg) == idle_time > agg * NsPerSec

\* lines 40-52: the keys of the snapshot that exceed the aggregation time,
\* in the order of the snapshot
RECURSIVE OldFlowsFrom(_, _, _, _)
OldFlowsFrom(cur, i, now_, agg) ==
    IF i > Len(cur) THEN <<>>
    ELSE LET attrs == cur[i][key]
             accms == cur[i][val]
             idle_time == IdleTime(now_, RecentStamp(accms))
         IN (IF Exceeds(idle_time, agg) THEN <<attrs>> ELSE <<>>)
            \o OldFlowsFrom(cur, i + 1, now_, agg)

\* the agg_time argument of the call in progress (lines 123 and 129)
SweepAgg == IF draining THEN 0 ELSE agg_time

\* ------------------------------------------------------------ report rows
\* socket.ntohs and socket.ntohl on a little-endian host
Ntohs(x) == (x % 256) * 256 + (x \div 256)

Ntohl(x) == (x % 256) * 16777216 + ((x \div 256) % 256) * 65536
            + ((x \div 65536) % 256) * 256 + (x \div 16777216)

AddCount_assign(total, x) == x

\* lines 164-165: n_packets += accms.packets
AddCount(total, x) == total + x

RECURSIVE MergeFrom_swapped(_, _, _)
MergeFrom_swapped(accms, j, m) ==
    IF j >= CPU_COUNT THEN m
    ELSE MergeFrom_swapped(accms, j + 1,
            [n_packets |-> AddCount(m.n_packets, accms[j].packets),
             n_bytes   |-> AddCount(m.n_bytes, accms[j].bytes),
             start     |-> IF m.start = -1 THEN accms[j].start
                           ELSE Max(m.start, accms[j].start),
             end       |-> IF m.start = -1 THEN accms[j].end
                           ELSE Min(m.end, accms[j].end)])

\* lines 157-171: the fold over the CPUs of one cache entry
RECURSIVE MergeFrom(_, _, _)
MergeFrom(accms, j, m) ==
    IF j >= CPU_COUNT THEN m
    ELSE MergeFrom(accms, j + 1,
            [n_packets |-> AddCount(m.n_packets, accms[j].packets),
             n_bytes   |-> AddCount(m.n_bytes, accms[j].bytes),
             start     |-> IF m.start = -1 THEN accms[j].start
                           ELSE Min(m.start, accms[j].start),
             end       |-> IF m.start = -1 THEN accms[j].end
                           ELSE Max(m.end, accms[j].end)])

Merge(accms) ==
    MergeFrom(accms, 0, [n_packets |-> 0, n_bytes |-> 0, start |-> -1, end |-> -1])

\* lines 172-173: start/1e9 + offset, in ticks
ToUnix(ns) == ns + TimeOffset * NsPerSec

\* lines 181-186: only 0x0800 and 0x8100 are decoded; ipaddress has no
\* ipv6_address, so the second branch raises AttributeError
DecodeRaises(attrs) == attrs.l2_proto = ETH_8100

DecodeIp(attrs, ip) ==
    IF attrs.l2_proto = ETH_IPV4 THEN [family |-> "IPv4", addr |-> Ntohl(ip)]
    ELSE [family |-> "", addr |-> 0]

\* lines 154-194: the row of one cache entry (the fields of the text line)
Row(attrs, accms) ==
    LET m == Merge(accms)
    IN [start     |-> ToUnix(m.start),
        end       |-> ToUnix(m.end),
        src_ip    |-> DecodeIp(attrs, attrs.src_ip),
        dst_ip    |-> DecodeIp(attrs, attrs.dst_ip),
        src_p     |-> Ntohs(attrs.src_port),
        dst_p     |-> Ntohs(attrs.dst_port),
        l2_proto  |-> attrs.l2_proto,
        l4_proto  |-> attrs.l4_proto,
        n_packets |-> m.n_packets,
        n_bytes   |-> m.n_bytes]

HEADER == "START, END, SRC IP, DST IP, SRC PORT, DST PORT, ETHER TYPE, PROTO, #PACKETS, #BYTES"

AddRow_byStart(S, row) ==
    IF \E r \in S : r.start = row.start THEN S ELSE S \cup {row}

\* lines 149 and 192: flow_set is a set of the rendered lines.  Two lines
\* are the same text exactly when all their fields are equal: no field
\* holds a comma and each field's text determines its value.
AddRow(S, row) == S \cup {row}

SortKey_end(row) == row.end

\* line 202: key=lambda x: float(x[:x.find(',')]), the leading field of the
\* line read back as a number
SortKey(row) == row.start

\* sorted() is stable: a row goes behind the rows whose key is not greater
InsertRow(s, row) ==
    LET n == Cardinality({i \in 1 .. Len(s) : SortKey(s[i]) <= SortKey(row)})
    IN SubSeq(s, 1, n) \o <<row>> \o SubSeq(s, n + 1, Len(s))

RECURSIVE Sorted(_)
Sorted(o) ==
    IF o = <<>> THEN <<>>
    ELSE InsertRow(Sorted(SubSeq(o, 1, Len(o) - 1)), o[Len(o)])

\* line 202: sorted() of a set, whose iteration order is arbitrary
SortedRows(S) == {Sorted(o) : o \in Orders(S)}

\* ------------------------------------------------------------ initial state
\* After bpf.attach_xdp and bpf.get_table (lines 105-117).
Init ==
    /\ pc = "loop"
    /\ clock = 0
    /\ flows = EmptyTable
    /\ cache = EmptyTable
    /\ attached = TRUE
    /\ run_time \in RunTimes
    /\ agg_time \in AggTimes
    /\ py_start = WallClock
    /\ wake = 0
    /\ draining = FALSE
    /\ now = 0
    /\ cur_flows = <<>>
    /\ old_flows = <<>>
    /\ idx = 1
    /\ all_flows = <<>>
    /\ flow_set = {}
    /\ pending = FALSE
    /\ out = <<>>
    /\ observed = {}
    /\ recorded = [k \in FlowKeys |-> [packets |-> 0, bytes |-> 0]]
    /\ npackets = 0
    /\ sigints = 0
    /\ detach_calls = 0
    /\ drains = 0
    /\ rendered = EmptyTable

Running == pc \notin {"done", "crashed"}

\* ------------------------------------------------------------ environment
Tick ==
    /\ Running
    /\ clock < MaxClock
    /\ clock' = clock + 1
    /\ UNCHANGED <<pc, flows, cache, attached, wake, draining, npackets, sigints,
                   observed, recorded, detach_calls, drains>>
    /\ UNCHANGED <<sweepVars, reportVars, argVars>>

\* The classifier records one packet of flow k on CPU c.
RecordPacket(accms, c, len) ==
    [accms EXCEPT ![c] =
        [packets |-> @.packets + 1,
         bytes   |-> @.bytes + len,
         start   |-> IF @.packets = 0 THEN clock ELSE @.start,
         end     |-> clock]]

ClassifierPacket(k, c, len) ==
    /\ Running
    /\ attached
    /\ npackets < MaxPackets
    /\ flows' = Put(flows, k,
                    RecordPacket(IF k \in DOMAIN flows THEN flows[k] ELSE ZeroAccms,
                                 c, len))
    /\ observed' = observed \cup {k}
    /\ recorded' = [recorded EXCEPT ![k] = [packets |-> @.packets + 1,
                                            bytes   |-> @.bytes + len]]
    /\ npackets' = npackets + 1
    /\ UNCHANGED <<pc, clock, cache, attached, wake, draining, sigints,
                   detach_calls, drains>>
    /\ UNCHANGED <<sweepVars, reportVars, argVars>>

\* The classifier has created the entry of flow k and not yet counted a
\* packet in it: every shard of the entry is zero.
ClassifierInit(k) ==
    /\ Running
    /\ attached
    /\ npackets < MaxPackets
    /\ k \notin DOMAIN flows
    /\ flows' = Put(flows, k, ZeroAccms)
    /\ observed' = observed \cup {k}
    /\ UNCHANGED recorded
    /\ npackets' = npackets + 1
    /\ UNCHANGED <<pc, clock, cache, attached, wake, draining, sigints,
                   detach_calls, drains>>
    /\ UNCHANGED <<sweepVars, reportVars, argVars>>

\* ------------------------------------------------------------ main
\* line 120: the loop test
LoopTest ==
    /\ pc = "loop"
    /\ IF Max(WallClock - py_start, py_start - WallClock) < run_time * NsPerSec
       THEN /\ pc' = "sleep"
            /\ wake' = clock + agg_time * NsPerSec
            /\ UNCHANGED <<draining, drains>>
       ELSE /\ pc' = "sweep"           \* line 129
            /\ draining' = TRUE
            /\ drains' = drains + 1
            /\ UNCHANGED wake
    /\ UNCHANGED <<flows, cache, attached, detach_calls>>
    /\ UNCHANGED <<envVars, sweepVars, reportVars, argVars>>

\* lines 122-123: time.sleep(agg_time) returns and _sweep_flows is called
SleepDone ==
    /\ pc = "sleep"
    /\ clock >= wake
    /\ pc' = "sweep"
    /\ UNCHANGED <<flows, cache, attached, wake, draining, detach_calls, drains>>
    /\ UNCHANGED <<envVars, sweepVars, reportVars, argVars>>

\* lines 34-52: read the clock, snapshot flows, pick the old flows
SweepScan ==
    /\ pc = "sweep"
    /\ \E cur \in Items(flows) :
          /\ now' = WallClock
          /\ cur_flows' = cur
          /\ old_flows' = OldFlowsFrom(cur, 1, WallClock, SweepAgg)
    /\ idx' = 1
    /\ pc' = "evict"
    /\ UNCHANGED <<flows, cache, attached, wake, draining, detach_calls, drains>>
    /\ UNCHANGED <<envVars, reportVars, argVars>>

SweepCache_skipped ==
    /\ pc = "evict"
    /\ idx <= Len(old_flows)
    /\ pc' = "delete"
    /\ UNCHANGED <<flows, cache, attached, wake, draining, detach_calls, drains>>
    /\ UNCHANGED <<envVars, sweepVars, reportVars, argVars>>

\* line 56: cache[flow] = flows[flow]
SweepCache ==
    /\ pc = "evict"
    /\ idx <= Len(old_flows)
    /\ IF old_flows[idx] \in DOMAIN flows
       THEN /\ cache' = Put(cache, old_flows[idx], flows[old_flows[idx]])
            /\ pc' = "delete"
       ELSE /\ pc' = "crashed"         \* KeyError
            /\ UNCHANGED cache
    /\ UNCHANGED <<flows, attached, wake, draining, detach_calls, drains>>
    /\ UNCHANGED <<envVars, sweepVars, reportVars, argVars>>

\* line 57: del flows[flow]
SweepDelete ==
    /\ pc = "delete"
    /\ flows' = Del(flows, old_flows[idx])
    /\ idx' = idx + 1
    /\ pc' = "evict"
    /\ UNCHANGED <<cache, attached, wake, draining, detach_calls, drains>>
    /\ UNCHANGED <<now, cur_flows, old_flows>>
    /\ UNCHANGED <<envVars, reportVars, argVars>>

\* line 58: _sweep_flows returns, to the loop (line 120) or to line 131
SweepReturn ==
    /\ pc = "evict"
    /\ idx > Len(old_flows)
    /\ pc' = IF draining THEN "leftover" ELSE "loop"
    /\ draining' = FALSE
    /\ UNCHANGED <<flows, cache, attached, wake, detach_calls, drains>>
    /\ UNCHANGED <<envVars, sweepVars, reportVars, argVars>>

\* bpf.remove_xdp(IF, 0): detaches, or raises when the detach fails
RemoveXdp(ok) ==
    /\ detach_calls' = detach_calls + 1
    /\ attached' = IF ok THEN FALSE ELSE attached

\* lines 124-129: the handler of KeyboardInterrupt, then the drain
CaughtInterrupt ==
    /\ pc = "caught"
    /\ \E ok \in BOOLEAN :
          /\ RemoveXdp(ok)
          /\ IF ok
             THEN /\ pc' = "sweep"
                  /\ draining' = TRUE
                  /\ drains' = drains + 1
             ELSE /\ pc' = "crashed"
                  /\ UNCHANGED <<draining, drains>>
    /\ UNCHANGED <<flows, cache, wake>>
    /\ UNCHANGED <<envVars, sweepVars, reportVars, argVars>>

\* lines 133-134: snapshot of what is still in flows
LeftoverScan ==
    /\ pc = "leftover"
    /\ cur_flows' \in Items(flows)
    /\ idx' = 1
    /\ pc' = "copy"
    /\ UNCHANGED <<flows, cache, attached, wake, draining, detach_calls, drains>>
    /\ UNCHANGED <<now, old_flows>>
    /\ UNCHANGED <<envVars, reportVars, argVars>>

\* lines 135-138: cache[attrs] = accms, from the snapshot
LeftoverCopy ==
    /\ pc = "copy"
    /\ IF idx <= Len(cur_flows)
       THEN /\ cache' = Put(cache, cur_flows[idx][key], cur_flows[idx][val])
            /\ idx' = idx + 1
            /\ pc' = "copy"
       ELSE /\ pc' = "open"
            /\ UNCHANGED <<cache, idx>>
    /\ UNCHANGED <<flows, attached, wake, draining, detach_calls, drains>>
    /\ UNCHANGED <<now, cur_flows, old_flows>>
    /\ UNCHANGED <<envVars, reportVars, argVars>>

\* lines 142-149: open the file, snapshot the cache
ReportOpen ==
    /\ pc = "open"
    /\ all_flows' \in Items(cache)
    /\ flow_set' = {}
    /\ idx' = 1
    /\ pc' = "compile"
    /\ UNCHANGED <<flows, cache, attached, wake, draining, detach_calls, drains>>
    /\ UNCHANGED <<now, cur_flows, old_flows, pending, out, rendered>>
    /\ UNCHANGED <<envVars, argVars>>

\* lines 152-194: one iteration of the loop over the cache entries
CompileRow ==
    /\ pc = "compile"
    /\ IF idx > Len(all_flows)
       THEN /\ pc' = "finally"
            /\ UNCHANGED <<flow_set, rendered, idx, pending>>
       ELSE LET attrs == all_flows[idx][key]
                accms == all_flows[idx][val]
            IN IF DecodeRaises(attrs)
               THEN /\ pending' = TRUE
                    /\ pc' = "finally"
                    /\ UNCHANGED <<flow_set, rendered, idx>>
               ELSE /\ flow_set' = AddRow(flow_set, Row(attrs, accms))
                    /\ rendered' = Put(rendered, attrs, Row(attrs, accms))
                    /\ idx' = idx + 1
                    /\ pc' = "compile"
                    /\ UNCHANGED pending
    /\ UNCHANGED <<flows, cache, attached, wake, draining, detach_calls, drains>>
    /\ UNCHANGED <<now, cur_flows, old_flows, all_flows, out>>
    /\ UNCHANGED <<envVars, argVars>>

Finally_retry ==
    /\ pc = "finally"
    /\ \E ok \in BOOLEAN :
          /\ RemoveXdp(ok)
          /\ pc' = IF ~ok THEN "finally" ELSE IF pending THEN "crashed" ELSE "sort"
    /\ UNCHANGED <<flows, cache, wake, draining, drains>>
    /\ UNCHANGED <<envVars, sweepVars, reportVars, argVars>>

\* lines 195-198: the finally clause
Finally ==
    /\ pc = "finally"
    /\ \E ok \in BOOLEAN :
          /\ RemoveXdp(ok)
          /\ pc' = IF ok /\ ~pending THEN "sort" ELSE "crashed"
    /\ UNCHANGED <<flows, cache, wake, draining, drains>>
    /\ UNCHANGED <<envVars, sweepVars, reportVars, argVars>>

\* lines 200-212: sort the rows, write the header and the rows
WriteReport ==
    /\ pc = "sort"
    /\ \E s_flow_set \in SortedRows(flow_set) : out' = <<HEADER>> \o s_flow_set
    /\ pc' = "done"
    /\ UNCHANGED <<flows, cache, attached, wake, draining, detach_calls, drains>>
    /\ UNCHANGED <<now, cur_flows, old_flows, idx, all_flows, flow_set, pending,
                   rendered>>
    /\ UNCHANGED <<envVars, argVars>>

\* The lines of main that lie in the try block of line 119.
InCollectTry == pc \in {"loop", "sleep", "sweep", "evict", "delete"} /\ ~draining

\* The lines of main that lie in the try block of line 140.
InReportTry == pc \in {"open", "compile"}

InterruptTarget_uncaught == IF InReportTry THEN "finally" ELSE "crashed"

\* Where a KeyboardInterrupt raised at the current line takes main.
InterruptTarget ==
    IF InCollectTry THEN "caught"
    ELSE IF InReportTry THEN "finally"
    ELSE "crashed"

\* Ctrl+C
Interrupt ==
    /\ Running
    /\ sigints < MaxInterrupts
    /\ sigints' = sigints + 1
    /\ pc' = InterruptTarget
    /\ pending' = IF InReportTry THEN TRUE ELSE pending
    /\ UNCHANGED <<clock, npackets, observed, recorded>>
    /\ UNCHANGED <<flows, cache, attached, wake, draining, detach_calls, drains>>
    /\ UNCHANGED <<sweepVars, all_flows, flow_set, out, rendered, argVars>>

Next ==
    \/ Tick
    \/ \E k \in FlowKeys, c \in CPUs, len \in PktLens : ClassifierPacket(k, c, len)
    \/ \E k \in FlowKeys : ClassifierInit(k)
    \/ LoopTest
    \/ SleepDone
    \/ SweepScan
    \/ SweepCache
    \/ SweepDelete
    \/ SweepReturn
    \/ CaughtInterrupt
    \/ LeftoverScan
    \/ LeftoverCopy
    \/ ReportOpen
    \/ CompileRow
    \/ Finally
    \/ WriteReport
    \/ Interrupt

Spec == Init /\ [][Next]_vars

\* ------------------------------------------------------------ the report alone
\* The report (lines 140-212) is a function of the cache it finds.  This
\* specification starts main at line 140 with any cache of at most
\* MaxReportFlows entries whose shards are empty or hold one of two
\* accumulators, reached with the classifier still attached (window elapsed)
\* or detached by the handler of line 124.
ShardA == [packets |-> 1, bytes |-> 2, start |-> 1, end |-> 1]
ShardB == [packets |-> 2, bytes |-> 5, start |-> 2, end |-> 3]

ReportAccms == [CPUs -> {ZeroAccm, ShardA, ShardB}]

ReportCaches ==
    UNION {[D -> ReportAccms] :
              D \in {X \in SUBSET ReportKeys : Cardinality(X) <= MaxReportFlows}}

InitReport ==
    /\ pc = "open"
    /\ clock = MaxClock
    /\ flows = EmptyTable
    /\ cache \in ReportCaches
    /\ attached \in BOOLEAN
    /\ detach_calls = (IF attached THEN 0 ELSE 1)
    /\ sigints = (IF attached THEN 0 ELSE 1)
    /\ run_time = 1
    /\ agg_time = 1
    /\ py_start = TimeOffset * NsPerSec
    /\ wake = 0
    /\ draining = FALSE
    /\ now = 0
    /\ cur_flows = <<>>
    /\ old_flows = <<>>
    /\ idx = 1
    /\ all_flows = <<>>
    /\ flow_set = {}
    /\ pending = FALSE
    /\ out = <<>>
    /\ observed = DOMAIN cache
    /\ recorded = [k \in FlowKeys |-> [packets |-> 0, bytes |-> 0]]
    /\ npackets = MaxPackets
    /\ drains = 1
    /\ rendered = EmptyTable

NextReport ==
    \/ ReportOpen
    \/ CompileRow
    \/ Finally
    \/ WriteReport
    \/ Interrupt

SpecReport == InitReport /\ [][NextReport]_vars

TypeOK == pc \in {"loop", "sleep", "sweep", "evict", "delete", "caught", "leftover",
                  "copy", "open", "compile", "finally", "sort", "done", "crashed"}

\* ------------------------------------------------------------ properties
\* The report compiler holds its snapshot of the cache.
ReportRead == pc \in {"compile", "finally", "sort", "done"} /\ Len(all_flows) > 0

NonEmptyShards(accms) == {c \in CPUs : accms[c].packets > 0}

AllZero(accms) == \A c \in CPUs : accms[c] = ZeroAccm

SetMax(S) == CHOOSE x \in S : \A y \in S : y <= x

SetMin(S) == CHOOSE x \in S : \A y \in S : x <= y

RECURSIVE SetSum(_, _)
SetSum(f, S) ==
    IF S = {} THEN 0
    ELSE LET c == CHOOSE x \in S : TRUE IN f[c] + SetSum(f, S \ {c})

\* C1: when the report compiler reads the cache, every FlowKey the
\* classifier has inserted into flows is in what it reads, exactly once.
C1_NoLossNoDup ==
    [][(pc = "open" /\ pc' = "compile") =>
         \A k \in observed :
            Cardinality({i \in 1 .. Len(all_flows') : all_flows'[i][key] = k}) = 1]_vars

\* C2: outside the window between line 56 and line 57 (and a run that died
\* in it), no FlowKey is in both flows and cache.
C2_Disjoint ==
    pc \notin {"delete", "crashed"} => (DOMAIN flows) \cap (DOMAIN cache) = {}

\* C3: every run that has ended has called bpf.remove_xdp.
C3_TeardownOnExit == pc \in {"done", "crashed"} => detach_calls >= 1

\* C4: the end of the collection loop (window end or Ctrl+C, also in the
\* middle of a sweep) leads to the drain; the drain runs once, nothing of
\* the collection loop runs after it has begun, the report is compiled only
\* after it has returned, and the run finishes only with the report written.
C4_State ==
    /\ drains <= 1
    /\ drains = 1 => ~InCollectTry /\ pc # "caught"
    /\ pc \in {"leftover", "copy", "open", "compile", "finally", "sort", "done"}
          => drains = 1 /\ ~draining
    /\ pc = "done" => Len(out) >= 1

C4_Step ==
    /\ (InCollectTry /\ ~InCollectTry') =>
          \/ pc' = "caught"
          \/ pc' = "sweep" /\ draining' /\ drains' = 1
    /\ (pc = "caught" /\ pc' \notin {"caught", "crashed"}) =>
          pc' = "sweep" /\ draining' /\ drains' = 1
    /\ (draining /\ ~draining') => pc' = "leftover"
    /\ (pc = "copy" /\ pc' # "copy") => pc' \in {"open", "crashed"}

\* C4: the drain runs exactly once after the collection loop has ended, then
\* the report compiler, then the exit; no periodic sweep after the drain began.
C4_DrainOnceThenReport == [](C4_State) /\ [][C4_Step]_vars

C4_Witness == pc = "done" /\ sigints = 1 /\ drains = 1 /\ detach_calls = 2

\* C5: when the sweep of line 129 returns, flows is empty.
C5_DrainEmpties ==
    [][(draining /\ pc' = "leftover") => DOMAIN flows' = {}]_vars

\* C6: the flows a sweep caches and deletes are those of its snapshot whose
\* idle time, from the maximum end stamp over the shards, is strictly more
\* than the threshold; a flow exactly at the threshold is left alone.
LatestEnd(accms) == SetMax({accms[c].end : c \in CPUs})

IdleTicks(accms) == now - (LatestEnd(accms) + TimeOffset * NsPerSec)

Candidates ==
    {cur_flows[i][key] : i \in {j \in 1 .. Len(cur_flows) :
         IdleTicks(cur_flows[j][val]) > SweepAgg * NsPerSec}}

C6_State ==
    pc \in {"evict", "delete"} =>
       /\ Range(old_flows) = Candidates
       /\ \A i \in 1 .. Len(old_flows) : i < idx => old_flows[i] \in DOMAIN cache

C6_Step ==
    pc \in {"evict", "delete"} =>
       /\ \A k \in (DOMAIN flows) \ (DOMAIN flows') : k \in Candidates
       /\ \A k \in DOMAIN cache' :
             (k \notin DOMAIN cache \/ cache'[k] # cache[k]) => k \in Candidates
       /\ (pc = "delete" /\ pc' = "evict") => old_flows[idx] \notin DOMAIN flows'

\* C6: a sweep evicts a flow if and only if its idle time is strictly more
\* than the threshold.
C6_EvictIffIdle == [](C6_State) /\ [][C6_Step]_vars

C6_Witness ==
    /\ pc = "evict"
    /\ ~draining
    /\ idx > Len(old_flows)
    /\ Len(old_flows) > 0
    /\ \E i \in 1 .. Len(cur_flows) :
          /\ IdleTicks(cur_flows[i][val]) = agg_time * NsPerSec
          /\ cur_flows[i][key] \in DOMAIN flows
          /\ cur_flows[i][key] \notin DOMAIN cache

\* C7: when the report compiler starts to read the cache, flows is empty.
C7_LiveEmptyAtReport ==
    [][(pc = "open" /\ pc' = "compile") => DOMAIN flows = {}]_vars

\* C8: the start and end of a row come from the shards that recorded a
\* packet only: the least start and the greatest end among them.
C8_ShardAware ==
    ReportRead =>
       \A i \in 1 .. Len(all_flows) :
          LET attrs == all_flows[i][key]
              accms == all_flows[i][val]
              used == NonEmptyShards(accms)
          IN (attrs \in DOMAIN rendered /\ used # {}) =>
                /\ rendered[attrs].start = ToUnix(SetMin({accms[c].start : c \in used}))
                /\ rendered[attrs].end = ToUnix(SetMax({accms[c].end : c \in used}))

\* C9: an entry with no packet in any shard is no candidate of a sweep and
\* gets no row in the report.
C9_EmptyExcluded ==
    /\ pc \in {"evict", "delete"} =>
          \A i \in 1 .. Len(cur_flows) :
             AllZero(cur_flows[i][val]) => cur_flows[i][key] \notin Range(old_flows)
    /\ ReportRead =>
          \A i \in 1 .. Len(all_flows) :
             AllZero(all_flows[i][val]) => all_flows[i][key] \notin DOMAIN rendered

\* C10: the packets and bytes of a row are the sums over all shards of its
\* cache entry.
C10_TotalsAreSums ==
    ReportRead =>
       \A i \in 1 .. Len(all_flows) :
          LET attrs == all_flows[i][key]
              accms == all_flows[i][val]
          IN attrs \in DOMAIN rendered =>
                /\ rendered[attrs] \in flow_set
                /\ rendered[attrs].n_packets
                      = SetSum([c \in CPUs |-> accms[c].packets], CPUs)
                /\ rendered[attrs].n_bytes
                      = SetSum([c \in CPUs |-> accms[c].bytes], CPUs)

C10_Witness ==
    /\ pc = "done"
    /\ \E i \in 1 .. Len(all_flows) :
          /\ all_flows[i][key] \in DOMAIN rendered
          /\ NonEmptyShards(all_flows[i][val]) = CPUs
          /\ \E j \in 2 .. Len(out) : out[j] = rendered[all_flows[i][key]]

\* C11: a teardown that fails after the rows have been compiled does not keep
\* the report from being written: the finally clause entered without a
\* pending exception is left only towards the sort and the write.
C11_ReportSurvivesTeardownFailure ==
    [][(pc = "finally" /\ ~pending /\ sigints' = sigints) =>
          pc' \in {"finally", "sort"}]_vars

\* C16: every FlowKey the engine has removed from flows is in cache: the
\* insert of line 56 comes before the delete of line 57, also when the sweep
\* is interrupted between the two.
C16_State == \A k \in observed : k \in DOMAIN flows \/ k \in DOMAIN cache

C16_Step == \A k \in (DOMAIN flows) \ (DOMAIN flows') : k \in DOMAIN cache

\* C16: no key the collector has observed is ever in neither table, and a
\* key leaves flows only when cache already holds it.
C16_NoPartialTransfer == [](C16_State) /\ [][C16_Step]_vars

C16_Witness ==
    /\ pc = "caught"
    /\ idx <= Len(old_flows)
    /\ old_flows[idx] \in DOMAIN cache
    /\ old_flows[idx] \in DOMAIN flows
    /\ \E k \in observed : k \notin DOMAIN flows /\ k \in DOMAIN cache

\* C17: each candidate a sweep moves makes cache larger by one FlowKey (line
\* 56) and flows smaller by one (line 57), so k candidates change both
\* sizes by k; stated for the runs no Ctrl+C has interrupted.
C17_SizesChangeByCandidates ==
    [][/\ (sigints = 0 /\ pc = "evict" /\ pc' = "delete") =>
             Cardinality(DOMAIN cache') = Cardinality(DOMAIN cache) + 1
       /\ (pc = "delete" /\ pc' = "evict") =>
             Cardinality(DOMAIN flows') = Cardinality(DOMAIN flows) - 1]_vars

\* C18: an entry of cache is never removed and never replaced by different
\* contents.
C18_AppendOnly ==
    [][\A k \in DOMAIN cache : k \in DOMAIN cache' /\ cache'[k] = cache[k]]_vars

\* C20 as claimed: bpf.remove_xdp is called at most once in a run.
C20_AtMostOnce == detach_calls <= 1

\* C20: bpf.remove_xdp is called at most once in a run that no Ctrl+C has
\* interrupted, and at most twice otherwise: once in the handler of line
\* 124 and once more in the finally clause of line 195.
C20_AtMostTwice ==
    /\ detach_calls <= 2
    /\ sigints = 0 => detach_calls <= 1
    /\ detach_calls = 2 => pc \in {"sort", "done", "crashed"}

C20_Witness == pc = "done" /\ detach_calls = 2 /\ ~attached

\* C19: at the end of a run the packets and bytes stored in cache for a
\* FlowKey are those the classifier has counted for it; stated for the runs
\* a Ctrl+C ended, where the classifier is detached before the drain and
\* every packet counted has met a sweep or the copy of line 138.
C19_CountsConserved ==
    (pc = "done" /\ sigints = 1) =>
       \A k \in DOMAIN cache :
          /\ SetSum([c \in CPUs |-> cache[k][c].packets], CPUs) = recorded[k].packets
          /\ SetSum([c \in CPUs |-> cache[k][c].bytes], CPUs) = recorded[k].bytes

\* C12: compiling one entry never ends the report: whatever the ethertype of
\* the entry, the step of the loop that reads it adds its row and goes on,
\* with empty addresses when the ethertype is not IPv4.
C12_RowIsolation ==
    [][(pc = "compile" /\ idx <= Len(all_flows) /\ sigints' = sigints) =>
          LET attrs == all_flows[idx][key]
          IN /\ pc' = "compile"
             /\ attrs \in DOMAIN rendered'
             /\ rendered'[attrs] \in flow_set'
             /\ attrs.l2_proto # ETH_IPV4 =>
                   /\ rendered'[attrs].src_ip.family = ""
                   /\ rendered'[attrs].dst_ip.family = ""]_vars

\* C13: the rows written after the header are in ascending order of their
\* start, and they are the rows of flow_set.
C13_SortedByStart ==
    pc = "done" =>
       /\ out[1] = HEADER
       /\ \A i, j \in 2 .. Len(out) : i < j => out[i].start <= out[j].start
       /\ {out[i] : i \in 2 .. Len(out)} = flow_set

C13_Witness ==
    /\ pc = "done"
    /\ Len(out) = 4
    /\ out[2].start < out[3].start
    /\ out[3].start < out[4].start
    /\ all_flows[1][key] \in DOMAIN rendered
    /\ rendered[all_flows[1][key]] = out[4]

\* C14: entries whose rows are the same text give one line of the report,
\* entries whose rows differ in any field give a line each.
C14_DedupByText ==
    pc = "done" =>
       /\ \A k \in DOMAIN rendered :
             Cardinality({j \in 2 .. Len(out) : out[j] = rendered[k]}) = 1
       /\ Len(out) - 1 = Cardinality({rendered[k] : k \in DOMAIN rendered})
       /\ \A i \in 1 .. Len(all_flows) :
             /\ all_flows[i][key] \in DOMAIN rendered
             /\ rendered[all_flows[i][key]] = Row(all_flows[i][key], all_flows[i][val])

C14_Witness ==
    /\ pc = "done"
    /\ DOMAIN rendered = {K_V4, K_OTHER, K_OTHER2}
    /\ rendered[K_OTHER] = rendered[K_OTHER2]
    /\ rendered[K_V4].start = rendered[K_OTHER].start
    /\ rendered[K_V4] # rendered[K_OTHER]
    /\ Len(out) = 3

\* C15: the row of an entry with a shard that recorded a packet has its
\* start no later than its end.
C15_StartBeforeEnd ==
    ReportRead =>
       \A i \in 1 .. Len(all_flows) :
          LET attrs == all_flows[i][key]
              accms == all_flows[i][val]
          IN (/\ attrs \in DOMAIN rendered
              /\ NonEmptyShards(accms) # {}
              /\ \A c \in NonEmptyShards(accms) : accms[c].start <= accms[c].end)
                => rendered[attrs].start <= rendered[attrs].end

C15_Witness ==
    /\ pc = "done"
    /\ \E i \in 1 .. Len(all_flows) :
          /\ NonEmptyShards(all_flows[i][val]) = CPUs
          /\ all_flows[i][val][0] # all_flows[i][val][1]
          /\ rendered[all_flows[i][key]].start < rendered[all_flows[i][key]].end
    /\ \E i \in 1 .. Len(all_flows) :
          Cardinality(NonEmptyShards(all_flows[i][val])) = 1

====
